---- MODULE Spec2Model ----
(***************************************************************************)
(* Model of movie_recommender.py: the MovieRecommender class (one resolver *)
(* per criterion, each a detail fetch followed by one discovery request)   *)
(* and the interactive loop of main().                                     *)
(*                                                                         *)
(* The remote API is the environment: every HTTP exchange is an input      *)
(* drawn from a bounded set of possible responses (transport failure, a    *)
(* JSON object lacking a key, a JSON object with lists of bounded length). *)
(*                                                                         *)
(* Two specifications:                                                     *)
(*   Spec         the program as run: main() and its menu loop;            *)
(*   SpecResolve  one direct call of a resolver method, over every movie   *)
(*                id, limit, detail record and discovery response.         *)
(*                                                                         *)
(* Strings the code builds or parses are sequences of one-character        *)
(* strings.  vote_average is kept in fixed point, Scale units per point.   *)
(* A MovieSummary is modelled by its id, the only field the resolvers      *)
(* read.  An optional value (a dict key that may be missing, a value that  *)
(* may be None) is a sequence of length 0 or 1.                            *)
(***************************************************************************)
EXTENDS Integers, Sequences, FiniteSets, TLC

VARIABLES
    pc,        \* position of main(): which input() it blocks on, or ended
    movie_id,  \* main's local movie_id (0 before the first assignment)
    choice,    \* the stripped menu line read by the step just taken
    search,    \* the search_movie call made by the step just taken
    call,      \* the resolver call made by the step just taken
    out,       \* what the step just taken printed last
    pending    \* the resolver calls the current menu choice has yet to make

vars == <<pc, movie_id, choice, search, call, out, pending>>

-----------------------------------------------------------------------------
(* Bounds of the model *)

MaxMovieId == 2       \* movie ids are 1..MaxMovieId
MaxResults == 3       \* longest `results` list of a response (SpecResolve)
MaxLimit == 3         \* limits 0..MaxLimit are passed to a resolver (SpecResolve)
MaxGenres == 2        \* longest genres list of a detail record
MaxCrew == 2          \* longest crew list
ExtraCast == 1        \* cast lists run up to TopCast + ExtraCast entries
ExtraKeywords == 1    \* keyword lists run up to TopKeywords + ExtraKeywords
MaxSessLen == 1       \* longest list in a detail or discovery response (Spec)
MaxSearch == 2        \* longest `results` list of a search response
MaxLine == 2          \* longest line typed at a prompt

(* Constants of the program *)

TopCast == 3          \* cast[:3]
TopKeywords == 5      \* keywords[:5]
DefaultLimit == 10    \* limit: int = 10
AllLimit == 5         \* the limit "Show All" passes
RatingMax == 10       \* min(10, rating + 1)
RatingMin == 0        \* max(0, rating - 1)
DefaultRating == 0    \* movie_details.get('vote_average', 0)
Scale == 10           \* fixed-point units per rating point

-----------------------------------------------------------------------------
(* Optional values and small helpers *)

None == <<>>
Some(x) == <<x>>
Option(S) == {None} \cup {Some(x) : x \in S}

Min2(a, b) == IF a <= b THEN a ELSE b
Max2(a, b) == IF a >= b THEN a ELSE b

SeqsUpTo(S, n) == UNION {[1..k -> S] : k \in 0..n}

Range(s) == {s[i] : i \in DOMAIN s}

(* Python s[:n] *)
SliceOneMore(s, n) == SubSeq(s, 1, Min2(n + 1, Len(s)))
Slice(s, n) ==
    IF n >= 0 THEN SubSeq(s, 1, Min2(n, Len(s)))
              ELSE SubSeq(s, 1, Max2(0, Len(s) + n))

(* [movie for movie in results if movie['id'] != movie_id] *)
ExcludeNone(results, mid) == results
Exclude(results, mid) == SelectSeq(results, LAMBDA m : m # mid)

(* str(n) for n >= 0 *)
DigitChars == <<"0", "1", "2", "3", "4", "5", "6", "7", "8", "9">>
RECURSIVE Str(_)
Str(n) == IF n < 10 THEN <<DigitChars[n + 1]>>
                    ELSE Str(n \div 10) \o <<DigitChars[(n % 10) + 1]>>

(* ','.join(map(str, ids)) *)
RECURSIVE Join(_)
Join(ids) ==
    IF Len(ids) = 0 THEN <<>>
    ELSE IF Len(ids) = 1 THEN Str(ids[1])
    ELSE Str(ids[1]) \o <<",">> \o Join(Tail(ids))

(* line.strip(), for lines of blanks and non-blank characters *)
RECURSIVE LStrip(_)
LStrip(s) == IF Len(s) > 0 /\ s[1] = " " THEN LStrip(Tail(s)) ELSE s
RECURSIVE RStrip(_)
RStrip(s) == IF Len(s) > 0 /\ s[Len(s)] = " "
             THEN RStrip(SubSeq(s, 1, Len(s) - 1)) ELSE s
Strip(s) == RStrip(LStrip(s))

-----------------------------------------------------------------------------
(* What the remote API may answer *)

MovieIds == 1..MaxMovieId
Ids == {1, 2}                       \* ids of genres, people and keywords
Jobs == {"Director", "Writer"}
Members == [id : Ids, job : Jobs]   \* crew entries
Votes == {0, 3, 50, 95, 100}        \* vote_average, in 1/Scale points

Criteria == <<"genre", "director", "cast", "keywords", "rating", "tmdb">>

(* GET /movie/{id}?append_to_response=credits,keywords.  ok = FALSE is a   *)
(* RequestException (no connection, HTTP error status, body not JSON).     *)
(* other = TRUE says the JSON object has keys besides the four read here,  *)
(* so the dict is not empty even when those four are missing.              *)
Detail(ok, other, genres, credits, keywords, vote) ==
    [ok |-> ok, other |-> other, genres |-> genres, credits |-> credits,
     keywords |-> keywords, vote_average |-> vote]

FailedDetail == Detail(FALSE, FALSE, None, None, None, None)
EmptyDetail == Detail(TRUE, FALSE, None, None, None, None)

Credits(crew, cast) == [crew |-> crew, cast |-> cast]

(* The detail records that differ in the keys resolver c reads; a key c    *)
(* never reads is left out of the record.                                  *)
DetailsFor(c, ng, ncrew, ncast, nkw) ==
    {FailedDetail, EmptyDetail} \cup
    CASE c = "genre" ->
           {Detail(TRUE, TRUE, g, None, None, None) :
              g \in Option(SeqsUpTo(Ids, ng))}
      [] c = "director" ->
           {Detail(TRUE, TRUE, None, cr, None, None) :
              cr \in Option({Credits(w, None) :
                               w \in Option(SeqsUpTo(Members, ncrew))})}
      [] c = "cast" ->
           {Detail(TRUE, TRUE, None, cr, None, None) :
              cr \in Option({Credits(None, a) :
                               a \in Option(SeqsUpTo(Ids, ncast))})}
      [] c = "keywords" ->
           {Detail(TRUE, TRUE, None, None, k, None) :
              k \in Option({[keywords |-> w] :
                              w \in Option(SeqsUpTo(Ids, nkw))})}
      [] c = "rating" ->
           {Detail(TRUE, TRUE, g, None, None, v) :
              g \in Option(SeqsUpTo(Ids, ng)), v \in Option(Votes)}
      [] OTHER -> {}

(* A response with a `results` array: search, discover, recommendations.   *)
Response(ok, results) == [ok |-> ok, results |-> results]
FailedResponse == Response(FALSE, None)
Responses(n) ==
    {FailedResponse} \cup
    {Response(TRUE, r) : r \in Option(SeqsUpTo(MovieIds, n))}

-----------------------------------------------------------------------------
(* The requests a resolver sends.  A parameter that is None is not sent.   *)

Query(endpoint, path_id, genres, crew, cast, keywords, gte, lte, sort) ==
    [endpoint |-> endpoint, path_id |-> path_id, with_genres |-> genres,
     with_crew |-> crew, with_cast |-> cast, with_keywords |-> keywords,
     vote_average_gte |-> gte, vote_average_lte |-> lte, sort_by |-> sort]

Discover(genres, crew, cast, keywords, gte, lte) ==
    Query("/discover/movie", None, genres, crew, cast, keywords, gte, lte,
          Some("popularity.desc"))

(* The record of one resolver call: its arguments, the detail record it    *)
(* fetched (None when it fetched none), the request it sent after that     *)
(* (None when it sent none) with the response, and how it ended.           *)
CallRec(c, mid, limit, detail, query, response, outcome, result, printed) ==
    [criterion |-> c, movie_id |-> mid, limit |-> limit, detail |-> detail,
     query |-> query, response |-> response, outcome |-> outcome,
     result |-> result, printed |-> printed]

NoCall == CallRec("none", 0, 0, None, None, None, "none", <<>>, "")

(* return [] before any discovery request *)
EarlyReturn(c, mid, limit, d) ==
    CallRec(c, mid, limit, Some(d), None, None, "returned", <<>>,
            IF d.ok THEN "" ELSE "Error getting movie details")

(* the except clause: print, return [] *)
Caught(c, mid, limit, detail, q, r, msg) ==
    CallRec(c, mid, limit, detail, Some(q), Some(r), "returned", <<>>, msg)

(* data['results'] on an object without that key: KeyError is no           *)
(* RequestException, so it leaves the method                               *)
KeyErrorRaised(c, mid, limit, detail, q, r) ==
    CallRec(c, mid, limit, detail, q, r, "raised", <<>>, "KeyError")

Returned(c, mid, limit, detail, q, r, result) ==
    CallRec(c, mid, limit, detail, Some(q), Some(r), "returned", result, "")

(* get_movie_details: the JSON object, or None on a RequestException *)
get_movie_details(d) == IF d.ok THEN Some(d) ELSE None

(* `not movie_details`: None and the empty dict are both false *)
IsEmptyDict(d) ==
    /\ ~d.other
    /\ d.genres = None /\ d.credits = None
    /\ d.keywords = None /\ d.vote_average = None
Falsy(md) == md = None \/ IsEmptyDict(md[1])

(* the for loop with break: the first crew member whose job is Director *)
LastDirector(crew) ==
    LET at == {i \in DOMAIN crew : crew[i].job = "Director"}
    IN  IF at = {} THEN None
        ELSE Some(crew[CHOOSE i \in at : \A j \in at : j <= i])
FirstDirector(crew) ==
    LET at == {i \in DOMAIN crew : crew[i].job = "Director"}
    IN  IF at = {} THEN None
        ELSE Some(crew[CHOOSE i \in at : \A j \in at : i <= j])

(* cast[:3] and keywords[:5] *)
AllOf(list) == list
TopCastOf(cast) == Slice(cast, TopCast)
TopKeywordsOf(keywords) == Slice(keywords, TopKeywords)

(* max(0, rating - 1) and min(10, rating + 1) *)
UnclampedLow(rating) == rating - Scale
WindowLow(rating) == Max2(RatingMin * Scale, rating - Scale)
WindowHigh(rating) == Min2(RatingMax * Scale, rating + Scale)

get_recommendations_by_genre(mid, limit, d, r) ==
    LET md == get_movie_details(d) IN
    IF Falsy(md) \/ md[1].genres = None
    THEN EarlyReturn("genre", mid, limit, d)
    ELSE
      LET genre_ids == md[1].genres[1]
          q == Discover(Some(Join(genre_ids)), None, None, None, None, None)
      IN  IF ~r.ok
          THEN Caught("genre", mid, limit, md, q, r,
                      "Error getting genre recommendations")
          ELSE IF r.results = None
          THEN KeyErrorRaised("genre", mid, limit, md, Some(q), Some(r))
          ELSE Returned("genre", mid, limit, md, q, r,
                        Slice(r.results[1], limit))

get_recommendations_by_director(mid, limit, d, r) ==
    LET md == get_movie_details(d) IN
    IF Falsy(md) \/ md[1].credits = None
    THEN EarlyReturn("director", mid, limit, d)
    ELSE IF md[1].credits[1].crew = None
    THEN KeyErrorRaised("director", mid, limit, md, None, None)
    ELSE
      LET director == FirstDirector(md[1].credits[1].crew[1]) IN
      IF director = None
      THEN EarlyReturn("director", mid, limit, d)
      ELSE
        LET q == Discover(None, Some(director[1].id), None, None, None, None)
        IN  IF ~r.ok
            THEN Caught("director", mid, limit, md, q, r,
                        "Error getting director recommendations")
            ELSE IF r.results = None
            THEN KeyErrorRaised("director", mid, limit, md, Some(q), Some(r))
            ELSE Returned("director", mid, limit, md, q, r,
                          Slice(Exclude(r.results[1], mid), limit))

get_recommendations_by_cast(mid, limit, d, r) ==
    LET md == get_movie_details(d) IN
    IF Falsy(md) \/ md[1].credits = None
    THEN EarlyReturn("cast", mid, limit, d)
    ELSE IF md[1].credits[1].cast = None
    THEN KeyErrorRaised("cast", mid, limit, md, None, None)
    ELSE
      LET cast == TopCastOf(md[1].credits[1].cast[1]) IN
      IF cast = <<>>
      THEN EarlyReturn("cast", mid, limit, d)
      ELSE
        LET q == Discover(None, None, Some(Join(cast)), None, None, None)
        IN  IF ~r.ok
            THEN Caught("cast", mid, limit, md, q, r,
                        "Error getting cast recommendations")
            ELSE IF r.results = None
            THEN KeyErrorRaised("cast", mid, limit, md, Some(q), Some(r))
            ELSE Returned("cast", mid, limit, md, q, r,
                          Slice(Exclude(r.results[1], mid), limit))

get_recommendations_by_keywords(mid, limit, d, r) ==
    LET md == get_movie_details(d) IN
    IF Falsy(md) \/ md[1].keywords = None
    THEN EarlyReturn("keywords", mid, limit, d)
    ELSE
      \* movie_details['keywords'].get('keywords', [])
      LET inner == md[1].keywords[1].keywords
          keywords == IF inner = None THEN <<>> ELSE inner[1]
      IN
      IF keywords = <<>>
      THEN EarlyReturn("keywords", mid, limit, d)
      ELSE
        LET q == Discover(None, None, None,
                          Some(Join(TopKeywordsOf(keywords))), None, None)
        IN  IF ~r.ok
            THEN Caught("keywords", mid, limit, md, q, r,
                        "Error getting keyword recommendations")
            ELSE IF r.results = None
            THEN KeyErrorRaised("keywords", mid, limit, md, Some(q), Some(r))
            ELSE Returned("keywords", mid, limit, md, q, r,
                          Slice(Exclude(r.results[1], mid), limit))

get_recommendations_by_rating(mid, limit, d, r) ==
    LET md == get_movie_details(d) IN
    IF Falsy(md)
    THEN EarlyReturn("rating", mid, limit, d)
    ELSE
      LET rating == IF md[1].vote_average = None
                    THEN DefaultRating * Scale ELSE md[1].vote_average[1]
          genre_ids == IF md[1].genres = None THEN <<>> ELSE md[1].genres[1]
          q == Discover(IF genre_ids # <<>> THEN Some(Join(genre_ids))
                                            ELSE None,
                        None, None, None,
                        Some(WindowLow(rating)), Some(WindowHigh(rating)))
      IN  IF ~r.ok
          THEN Caught("rating", mid, limit, md, q, r,
                      "Error getting rating recommendations")
          ELSE IF r.results = None
          THEN KeyErrorRaised("rating", mid, limit, md, Some(q), Some(r))
          ELSE Returned("rating", mid, limit, md, q, r,
                        Slice(Exclude(r.results[1], mid), limit))

(* d is not used: this method fetches no detail record *)
get_tmdb_recommendations(mid, limit, d, r) ==
    LET q == Query("/movie/{id}/recommendations", Some(mid),
                   None, None, None, None, None, None, None)
    IN  IF ~r.ok
        THEN Caught("tmdb", mid, limit, None, q, r,
                    "Error getting TMDB recommendations")
        ELSE IF r.results = None
        THEN KeyErrorRaised("tmdb", mid, limit, None, Some(q), Some(r))
        ELSE Returned("tmdb", mid, limit, None, q, r,
                      Slice(r.results[1], limit))

Resolve(c, mid, limit, d, r) ==
    CASE c = "genre" -> get_recommendations_by_genre(mid, limit, d, r)
      [] c = "director" -> get_recommendations_by_director(mid, limit, d, r)
      [] c = "cast" -> get_recommendations_by_cast(mid, limit, d, r)
      [] c = "keywords" -> get_recommendations_by_keywords(mid, limit, d, r)
      [] c = "rating" -> get_recommendations_by_rating(mid, limit, d, r)
      [] c = "tmdb" -> get_tmdb_recommendations(mid, limit, d, r)

(* search_movie: the first match, or None *)
SearchRec(title, response, outcome, result, printed) ==
    [title |-> title, response |-> response, outcome |-> outcome,
     result |-> result, printed |-> printed]

NoSearch == SearchRec(<<>>, None, "none", None, "")

search_movie_last(title, r) ==
    IF ~r.ok
    THEN SearchRec(title, Some(r), "returned", None,
                   "Error searching for movie")
    ELSE IF r.results = None
    THEN SearchRec(title, Some(r), "raised", None, "KeyError")
    ELSE IF r.results[1] # <<>>
    THEN SearchRec(title, Some(r), "returned",
                   Some(r.results[1][Len(r.results[1])]), "")
    ELSE SearchRec(title, Some(r), "returned", None, "")

search_movie(title, r) ==
    IF ~r.ok
    THEN SearchRec(title, Some(r), "returned", None,
                   "Error searching for movie")
    ELSE IF r.results = None
    THEN SearchRec(title, Some(r), "raised", None, "KeyError")
    ELSE IF r.results[1] # <<>>
    THEN SearchRec(title, Some(r), "returned", Some(r.results[1][1]), "")
    ELSE SearchRec(title, Some(r), "returned", None, "")

-----------------------------------------------------------------------------
(* main(): the prompts and the menu loop *)

KeyChars == {" ", "a"}
MenuChars == {" ", "1", "2", "3", "4", "5", "6", "7", "8", "9"}
TextLines == SeqsUpTo(KeyChars, MaxLine)    \* lines typed as key or title
MenuLines == SeqsUpTo(MenuChars, MaxLine)   \* lines typed at the menu

SessDetails(c) == DetailsFor(c, MaxSessLen, MaxSessLen, MaxSessLen, MaxSessLen)
SessResponses == Responses(MaxSessLen)
SearchResponses == Responses(MaxSearch)

Pending(c, limit) == [criterion |-> c, limit |-> limit]

(* display_recommendations *)
display_recommendations(movies) ==
    IF movies = <<>> THEN "No recommendations found"
                     ELSE "RECOMMENDATIONS BASED ON"

Init ==
    /\ pc = "api_key"
    /\ movie_id = 0
    /\ choice = <<>>
    /\ search = NoSearch
    /\ call = NoCall
    /\ out = ""
    /\ pending = <<>>

(* input("Enter your TMDB API key ...").strip() *)
EnterApiKey ==
    /\ pc = "api_key"
    /\ \E line \in TextLines :
         IF Strip(line) = <<>>
         THEN pc' = "done" /\ out' = "Please provide a TMDB API key"
         ELSE pc' = "title" /\ out' = ""
    /\ UNCHANGED <<movie_id, choice, search, call, pending>>

(* input("Enter a movie title: ").strip(), then the first search *)
EnterTitle ==
    /\ pc = "title"
    /\ \E line \in TextLines, r \in SearchResponses :
         LET movie_title == Strip(line)
             s == search_movie(movie_title, r)
         IN  IF movie_title = <<>>
             THEN /\ pc' = "done"
                  /\ out' = "No movie title provided. Exiting."
                  /\ search' = NoSearch
                  /\ UNCHANGED movie_id
             ELSE /\ search' = s
                  /\ IF s.outcome = "raised"
                     THEN pc' = "aborted" /\ out' = s.printed
                                          /\ UNCHANGED movie_id
                     ELSE IF s.result = None
                     THEN pc' = "done" /\ out' = "Could not find movie"
                                       /\ UNCHANGED movie_id
                     ELSE pc' = "menu" /\ out' = "display_movie_info"
                                       /\ movie_id' = s.result[1]
    /\ UNCHANGED <<choice, call, pending>>

(* choice = input("Enter your choice (1-9): ").strip() and the branch it   *)
(* selects, up to the first network request or prompt of that branch       *)
MenuChoice ==
    /\ pc = "menu"
    /\ \E line \in MenuLines :
         LET c == Strip(line) IN
         /\ choice' = c
         /\ IF \E i \in 1..6 : c = Str(i)
            THEN /\ pc' = "resolve"
                 /\ pending' = <<Pending(
                        Criteria[CHOOSE i \in 1..6 : c = Str(i)],
                        DefaultLimit)>>
                 /\ out' = ""
            ELSE IF c = Str(7)
            THEN /\ pc' = "resolve"
                 /\ pending' = [i \in 1..6 |-> Pending(Criteria[i], AllLimit)]
                 /\ out' = "ALL RECOMMENDATIONS"
            ELSE IF c = Str(8)
            THEN pc' = "new_title" /\ pending' = <<>> /\ out' = ""
            ELSE IF c = Str(9)
            THEN pc' = "done" /\ pending' = <<>> /\ out' = "Thank you"
            ELSE pc' = "menu" /\ pending' = <<>> /\ out' = "Invalid choice"
    /\ search' = NoSearch
    /\ call' = NoCall
    /\ UNCHANGED movie_id

(* one resolver call of the current choice, and the display of its result *)
RunResolver ==
    /\ pc = "resolve"
    /\ pending # <<>>
    /\ LET c == pending[1].criterion IN
       \E d \in SessDetails(c), r \in SessResponses :
         LET res == Resolve(c, movie_id, pending[1].limit, d, r) IN
         /\ call' = res
         /\ IF res.outcome = "raised"
            THEN pc' = "aborted" /\ pending' = <<>> /\ out' = res.printed
            ELSE /\ pending' = Tail(pending)
                 /\ pc' = IF Tail(pending) = <<>> THEN "menu" ELSE "resolve"
                 /\ out' = display_recommendations(res.result)
    /\ search' = NoSearch
    /\ UNCHANGED <<movie_id, choice>>

(* choice 8: input("Enter a new movie title: ").strip() and the search *)
NewTitle ==
    /\ pc = "new_title"
    /\ \E line \in TextLines, r \in SearchResponses :
         LET movie_title == Strip(line)
             s == search_movie(movie_title, r)
         IN  IF movie_title = <<>>
             THEN /\ pc' = "menu"
                  /\ out' = "No movie title provided."
                  /\ search' = NoSearch
                  /\ UNCHANGED movie_id
             ELSE /\ search' = s
                  /\ IF s.outcome = "raised"
                     THEN pc' = "aborted" /\ out' = s.printed
                                          /\ UNCHANGED movie_id
                     ELSE IF s.result = None
                     THEN pc' = "menu" /\ out' = "Could not find movie"
                                       /\ UNCHANGED movie_id
                     ELSE pc' = "menu" /\ out' = "display_movie_info"
                                       /\ movie_id' = s.result[1]
    /\ UNCHANGED <<choice, call, pending>>

(* input() on a closed stream raises EOFError, which nothing catches *)
InputClosed ==
    /\ pc \in {"api_key", "title", "menu", "new_title"}
    /\ pc' = "aborted"
    /\ out' = "EOFError"
    /\ search' = NoSearch
    /\ call' = NoCall
    /\ UNCHANGED <<movie_id, choice, pending>>

Next ==
    \/ EnterApiKey
    \/ EnterTitle
    \/ MenuChoice
    \/ RunResolver
    \/ NewTitle
    \/ InputClosed

Spec == Init /\ [][Next]_vars

-----------------------------------------------------------------------------
(* One direct call of a resolver method *)

Limits == 0..MaxLimit
CallDetails(c) ==
    DetailsFor(c, MaxGenres, MaxCrew, TopCast + ExtraCast,
               TopKeywords + ExtraKeywords)
CallResponses == Responses(MaxResults)

InitResolve ==
    /\ pc = "caller"
    /\ movie_id = 0
    /\ choice = <<>>
    /\ search = NoSearch
    /\ call = NoCall
    /\ out = ""
    /\ pending = <<>>

CallResolver(c) ==
    /\ pc = "caller"
    /\ \E mid \in MovieIds, limit \in Limits,
          d \in CallDetails(c), r \in CallResponses :
         /\ call' = Resolve(c, mid, limit, d, r)
         /\ pc' = call'.outcome
         /\ out' = call'.printed
    /\ UNCHANGED <<movie_id, choice, search, pending>>

CallGenre == CallResolver("genre")
CallDirector == CallResolver("director")
CallCast == CallResolver("cast")
CallKeywords == CallResolver("keywords")
CallRating == CallResolver("rating")
CallTmdb == CallResolver("tmdb")

NextResolve ==
    \/ CallGenre
    \/ CallDirector
    \/ CallCast
    \/ CallKeywords
    \/ CallRating
    \/ CallTmdb

SpecResolve == InitResolve /\ [][NextResolve]_vars

-----------------------------------------------------------------------------
(* Reading a call record *)

(* the ids a comma-separated parameter value names *)
DigitVal(ch) == CHOOSE d \in 0..9 : DigitChars[d + 1] = ch
RECURSIVE Num(_)
Num(s) == IF s = <<>> THEN 0
          ELSE Num(SubSeq(s, 1, Len(s) - 1)) * 10 + DigitVal(s[Len(s)])
RECURSIVE ParseIds(_)
ParseIds(s) ==
    IF s = <<>> THEN <<>>
    ELSE LET commas == {i \in DOMAIN s : s[i] = ","} IN
         IF commas = {} THEN <<Num(s)>>
         ELSE LET k == CHOOSE i \in commas : \A j \in commas : i <= j
              IN  <<Num(SubSeq(s, 1, k - 1))>>
                    \o ParseIds(SubSeq(s, k + 1, Len(s)))

RECURSIVE IsSubseq(_, _)
IsSubseq(a, b) ==
    IF a = <<>> THEN TRUE
    ELSE IF b = <<>> THEN FALSE
    ELSE IF a[1] = b[1] THEN IsSubseq(Tail(a), Tail(b))
    ELSE IsSubseq(a, Tail(b))

Called(c) == call.criterion = c /\ call.outcome # "none"
Sent == call.query # None
(* the `results` list the remote returned to this call, if it returned one *)
HasRemote ==
    /\ call.response # None
    /\ call.response[1].ok
    /\ call.response[1].results # None
Remote == IF HasRemote THEN call.response[1].results[1] ELSE <<>>
(* the detail record this call got, if the fetch succeeded *)
HasDetail == call.detail # None /\ call.detail[1].ok
Fetched == call.detail[1]

-----------------------------------------------------------------------------
(* C1: for director, cast, keywords and rating, whatever the remote        *)
(* returns, no entry of the returned sequence has the source movie's id.   *)
C1_SelfExcluded ==
    (call.criterion \in {"director", "cast", "keywords", "rating"}
       /\ call.outcome = "returned")
    => \A i \in DOMAIN call.result : call.result[i] # call.movie_id

(* a remote list that holds the source movie and another one *)
C1_Witness ==
    /\ call.criterion \in {"director", "cast", "keywords", "rating"}
    /\ call.outcome = "returned"
    /\ HasRemote
    /\ call.movie_id \in Range(Remote)
    /\ call.result # <<>>

(* C2: no operation that issues a discovery request (genre, director,      *)
(* cast, keywords, rating) returns an entry with the current movie's id.   *)
C2_NoSelfInDiscovery ==
    (call.criterion \in {"genre", "director", "cast", "keywords", "rating"}
       /\ call.outcome = "returned")
    => call.movie_id \notin Range(call.result)

(* C3: a transport failure or a data-shape failure, in the detail fetch or *)
(* in the discovery fetch, makes the call return the empty sequence; the   *)
(* call does not raise and the session is not aborted.                     *)
DetailFetchFailed == call.detail # None /\ ~call.detail[1].ok
DetailShapeFailure ==
    /\ HasDetail
    /\ Fetched.credits # None
    /\ \/ call.criterion = "director" /\ Fetched.credits[1].crew = None
       \/ call.criterion = "cast" /\ Fetched.credits[1].cast = None
ResponseFetchFailed == call.response # None /\ ~call.response[1].ok
ResponseShapeFailure ==
    /\ call.response # None
    /\ call.response[1].ok
    /\ call.response[1].results = None
CallFailed ==
    /\ call.outcome # "none"
    /\ \/ DetailFetchFailed
       \/ DetailShapeFailure
       \/ ResponseFetchFailed
       \/ ResponseShapeFailure
C3_FailureYieldsEmpty ==
    CallFailed =>
      /\ call.outcome = "returned"
      /\ call.result = <<>>
      /\ pc # "aborted"

(* C4: after a failed lookup (a failed or fruitless search, a failed       *)
(* resolver call) the program goes on to the menu; it does not end.        *)
SearchFailed == search.outcome # "none" /\ search.result = None
C4_ErrorsReturnToMenu ==
    (SearchFailed \/ CallFailed) => pc \in {"menu", "resolve"}

(* C5: with limit >= 0 the returned sequence has at most `limit` entries   *)
(* and is an order-preserving subsequence of the remote's result list.     *)
C5_CappedSubsequence ==
    (call.outcome = "returned" /\ call.limit >= 0)
    => /\ Len(call.result) <= call.limit
       /\ IsSubseq(call.result, Remote)

(* the cap cuts a longer remote list *)
C5_Witness ==
    /\ call.outcome = "returned"
    /\ call.limit > 0
    /\ Len(Remote) > call.limit
    /\ Len(call.result) = call.limit

(* C6: genre resolution sends exactly the genre ids of the record when     *)
(* `genres` is non-empty, and returns the empty sequence when `genres` is  *)
(* missing or empty.  (Stated of the calls whose fetches do not fail: what *)
(* a failed fetch does is C3's matter.)                                    *)
C6_GenreFilter ==
    (Called("genre") /\ HasDetail /\ ~CallFailed) =>
      IF Fetched.genres # None /\ Fetched.genres[1] # <<>>
      THEN /\ Sent
           /\ call.query[1].with_genres # None
           /\ Range(ParseIds(call.query[1].with_genres[1]))
                = Range(Fetched.genres[1])
      ELSE call.outcome = "returned" /\ call.result = <<>>

(* C7: director resolution filters by the id of the first crew entry whose *)
(* job is "Director"; with no such entry it returns the empty sequence and *)
(* sends no discovery request.                                             *)
C7_FirstDirector ==
    (Called("director") /\ HasDetail /\ Fetched.credits # None
       /\ Fetched.credits[1].crew # None)
    => LET crew == Fetched.credits[1].crew[1]
           directors == {i \in DOMAIN crew : crew[i].job = "Director"}
       IN  IF directors = {}
           THEN ~Sent /\ call.outcome = "returned" /\ call.result = <<>>
           ELSE /\ Sent
                /\ \E i \in directors :
                     /\ \A j \in 1..(i - 1) : j \notin directors
                     /\ call.query[1].with_crew = Some(crew[i].id)
                /\ call.query[1].with_genres = None
                /\ call.query[1].with_cast = None
                /\ call.query[1].with_keywords = None

(* two directors with different ids, the second one not used *)
C7_Witness ==
    /\ Called("director") /\ HasDetail /\ Sent
    /\ Fetched.credits # None /\ Fetched.credits[1].crew # None
    /\ LET crew == Fetched.credits[1].crew[1] IN
       /\ Len(crew) >= 2
       /\ crew[1].job = "Director" /\ crew[2].job = "Director"
       /\ crew[1].id # crew[2].id
       /\ call.query[1].with_crew = Some(crew[1].id)

(* C8: cast resolution filters by exactly the ids of the first min(3, n)   *)
(* cast entries, keyword resolution by exactly the ids of the first        *)
(* min(5, n) keywords, in the record's order; an empty list gives the      *)
(* empty sequence.                                                         *)
C8_TopN ==
    /\ (Called("cast") /\ HasDetail /\ Fetched.credits # None
          /\ Fetched.credits[1].cast # None)
       => LET cast == Fetched.credits[1].cast[1] IN
          IF cast = <<>>
          THEN ~Sent /\ call.outcome = "returned" /\ call.result = <<>>
          ELSE /\ Sent
               /\ call.query[1].with_cast # None
               /\ ParseIds(call.query[1].with_cast[1])
                    = SubSeq(cast, 1, Min2(3, Len(cast)))
    /\ (Called("keywords") /\ HasDetail /\ Fetched.keywords # None
          /\ Fetched.keywords[1].keywords # None)
       => LET keywords == Fetched.keywords[1].keywords[1] IN
          IF keywords = <<>>
          THEN ~Sent /\ call.outcome = "returned" /\ call.result = <<>>
          ELSE /\ Sent
               /\ call.query[1].with_keywords # None
               /\ ParseIds(call.query[1].with_keywords[1])
                    = SubSeq(keywords, 1, Min2(5, Len(keywords)))

(* a fourth cast entry, unlike the first three, is not in the filter *)
C8_Witness ==
    /\ Called("cast") /\ HasDetail /\ Sent
    /\ Fetched.credits # None /\ Fetched.credits[1].cast # None
    /\ LET cast == Fetched.credits[1].cast[1] IN
       /\ Len(cast) > 3
       /\ cast[4] \notin {cast[1], cast[2], cast[3]}
       /\ cast[4] \notin Range(ParseIds(call.query[1].with_cast[1]))

(* C9: rating resolution sends the window [max(0, r-1), min(10, r+1)] for  *)
(* vote_average r in [0, 10] (0 when absent): 0 <= low <= high <= 10,      *)
(* r = 9.5 gives [8.5, 10], r = 0.3 gives [0, 1.3]; the genre filter is    *)
(* sent exactly when the record's genres are non-empty.                    *)
C9_RatingWindow ==
    (Called("rating") /\ Sent) =>
      LET r == IF Fetched.vote_average = None THEN 0
                                              ELSE Fetched.vote_average[1]
          low == call.query[1].vote_average_gte
          high == call.query[1].vote_average_lte
          genres == IF Fetched.genres = None THEN <<>> ELSE Fetched.genres[1]
      IN  (0 <= r /\ r <= 100) =>
            /\ low # None /\ high # None
            /\ 0 <= low[1] /\ low[1] <= high[1] /\ high[1] <= 100
            /\ low[1] = (IF r >= 10 THEN r - 10 ELSE 0)
            /\ high[1] = (IF r <= 90 THEN r + 10 ELSE 100)
            /\ (r = 95 => low[1] = 85 /\ high[1] = 100)
            /\ (r = 3 => low[1] = 0 /\ high[1] = 13)
            /\ (call.query[1].with_genres # None <=> genres # <<>>)
            /\ (genres # <<>> =>
                  ParseIds(call.query[1].with_genres[1]) = genres)

(* vote_average 0.3 with genres: the lower bound clamps at 0 *)
C9_Witness ==
    /\ Called("rating") /\ Sent
    /\ Fetched.vote_average = Some(3)
    /\ Fetched.genres # None /\ Fetched.genres[1] # <<>>
    /\ call.query[1].vote_average_gte = Some(0)
    /\ call.query[1].vote_average_lte = Some(13)

(* C10: in the menu loop movie_id changes only in choice 8, with a         *)
(* non-empty title whose search has a match, and then becomes the id of    *)
(* the first match; every other step leaves it unchanged.                  *)
C10_MovieIdFrame ==
    [][pc \notin {"api_key", "title"} =>
         LET rsp == search'.response
             matched == /\ rsp # None
                        /\ rsp[1].ok
                        /\ rsp[1].results # None
                        /\ rsp[1].results[1] # <<>>
         IN  IF pc = "new_title" /\ matched
             THEN /\ choice = Str(8)
                  /\ search'.title # <<>>
                  /\ movie_id' = rsp[1].results[1][1]
             ELSE movie_id' = movie_id]_vars

(* choice 8 found a list of two different movies and took the first *)
C10_Witness ==
    /\ pc = "menu"
    /\ choice = Str(8)
    /\ search.response # None
    /\ search.response[1].ok
    /\ search.response[1].results # None
    /\ LET found == search.response[1].results[1] IN
       /\ Len(found) >= 2
       /\ found[1] # found[2]
       /\ movie_id = found[1]

====
